---- MODULE Spec2Model ----
(***************************************************************************)
(* URIFilesystem: a facade that routes filesystem operations on URIs to a  *)
(* per-(scheme, authority) backend held in a FileSystemContainer.          *)
(*                                                                         *)
(* Strings that the program takes apart (URIs, schemes, credential keys,   *)
(* paths) are sequences of one-character strings.  Opaque values           *)
(* (method names, error names, parameter bundles, scalar results) are      *)
(* TLA+ strings.                                                           *)
(***************************************************************************)
EXTENDS Naturals, Sequences, FiniteSets, TLC

\* ------------------------------------------------------------------ bounds
NumCallers == 2
MaxInst == 4
MaxLen == 5

Callers == 1..NumCallers
SeqCallers == {1}

\* ------------------------------------------------------------ text helpers
Letters == {"a", "b", "e", "f", "h", "i", "l", "p", "s", "t", "x", "y", "S"}
Digits == {"3"}
SchemeChars == Letters \cup Digits \cup {"+", "-", "."}

Lower(ch) == IF ch = "S" THEN "s" ELSE ch

LowerSeq(s) == [i \in 1..Len(s) |-> Lower(s[i])]

\* str.find(ch, from): first 1-based index >= from holding ch, 0 when absent
Find(s, ch, from) ==
  IF \E i \in from..Len(s) : s[i] = ch
    THEN CHOOSE i \in from..Len(s) : s[i] = ch /\ \A j \in from..(i - 1) : s[j] # ch
    ELSE 0

StartsWith(s, prefix) ==
  /\ Len(s) >= Len(prefix)
  /\ SubSeq(s, 1, Len(prefix)) = prefix

SchemeSep == <<":", "/", "/">>

\* ------------------------------------------------------------- URI parser
\* mutant: the netloc slice starts one character early
urlparseNetlocOffByOne(url) ==
  LET i == Find(url, ":", 1)
      hasScheme == /\ i > 1
                   /\ url[1] \in Letters
                   /\ \A j \in 1..(i - 1) : url[j] \in SchemeChars
      scheme == IF hasScheme THEN LowerSeq(SubSeq(url, 1, i - 1)) ELSE <<>>
      rest == IF hasScheme THEN SubSeq(url, i + 1, Len(url)) ELSE url
      hasNetloc == Len(rest) >= 2 /\ rest[1] = "/" /\ rest[2] = "/"
      slash == Find(rest, "/", 3)
      delim == IF slash = 0 THEN Len(rest) + 1 ELSE slash
  IN  [scheme |-> scheme,
       netloc |-> IF hasNetloc THEN SubSeq(rest, 2, delim - 1) ELSE <<>>,
       path   |-> IF hasNetloc THEN SubSeq(rest, delim, Len(rest)) ELSE rest]

\* urllib.parse.urlparse restricted to URIs without '?', '#', ';', '[' :
\* scheme (lower-cased), netloc and path.
urlparse(url) ==
  LET i == Find(url, ":", 1)
      hasScheme == /\ i > 1
                   /\ url[1] \in Letters
                   /\ \A j \in 1..(i - 1) : url[j] \in SchemeChars
      scheme == IF hasScheme THEN LowerSeq(SubSeq(url, 1, i - 1)) ELSE <<>>
      rest == IF hasScheme THEN SubSeq(url, i + 1, Len(url)) ELSE url
      hasNetloc == Len(rest) >= 2 /\ rest[1] = "/" /\ rest[2] = "/"
      slash == Find(rest, "/", 3)
      delim == IF slash = 0 THEN Len(rest) + 1 ELSE slash
  IN  [scheme |-> scheme,
       netloc |-> IF hasNetloc THEN SubSeq(rest, 3, delim - 1) ELSE <<>>,
       path   |-> IF hasNetloc THEN SubSeq(rest, delim, Len(rest)) ELSE rest]

\* ------------------------------------------------------------ input domain
S3 == <<"s", "3">>
FILE == <<"f", "i", "l", "e">>
FTP == <<"f", "t", "p">>

u_s3ax == S3 \o SchemeSep \o <<"a", "/", "x">>
u_s3ay == S3 \o SchemeSep \o <<"a", "/", "y">>
u_s3bx == S3 \o SchemeSep \o <<"b", "/", "x">>
u_S3ax == <<"S", "3">> \o SchemeSep \o <<"a", "/", "x">>
u_file == FILE \o SchemeSep \o <<"/", "x">>
u_ftp == FTP \o SchemeSep \o <<"h", "/", "x">>
u_bare == <<"x", "/", "f">>
u_empty == <<>>

URIs == {u_s3ax, u_s3ay, u_s3bx, u_S3ax, u_file, u_ftp, u_bare, u_empty}
RaceURIs == {u_s3ax, u_s3bx}
ResolveURIs == {u_s3ax, u_s3ay, u_s3bx}

\* every string of at most MaxLen characters over a small alphabet
ParseAlphabet == {"s", "S", ":", "/", "a"}
ParseInputs == UNION {[1..n -> ParseAlphabet] : n \in 0..MaxLen}

\* the methods the model calls, a subset of _methods_to_expose
CalledMethods == {"ls", "exists", "copy"}

\* trailing arguments of a call: positional *args and keyword **kwargs
NoRest == [args |-> <<>>, kwargs |-> {}]
PathKw == [args |-> <<>>, kwargs |-> {<<"path", <<"x">>>>}]
DstArg == [args |-> <<u_s3ay>>, kwargs |-> {}]
Rests == {NoRest, PathKw, DstArg}

\* credential configurations handed to the constructor; None is given = FALSE
CredKey(scheme, netloc) == scheme \o SchemeSep \o netloc

NoTable == [k \in {} |-> ""]
TableDefault == [k \in {CredKey(S3, <<>>)} |-> "P_s3"]
TableBoth ==
  [k \in {CredKey(S3, <<>>), CredKey(S3, <<"a">>)} |->
     IF k = CredKey(S3, <<>>) THEN "P_s3" ELSE "P_s3_a"]
TableOther ==
  [k \in {CredKey(S3, <<"b">>), CredKey(FILE, <<>>)} |->
     IF k = CredKey(FILE, <<>>) THEN "P_file" ELSE "P_s3_b"]

Configs ==
  {[given |-> FALSE, table |-> NoTable],
   [given |-> TRUE, table |-> TableDefault],
   [given |-> TRUE, table |-> TableBoth],
   [given |-> TRUE, table |-> TableOther]}
RaceConfigs == {[given |-> TRUE, table |-> TableBoth]}
TwoConfigs ==
  {[given |-> TRUE, table |-> TableBoth], [given |-> TRUE, table |-> TableDefault]}

\* values a backend operation may return: paths is the list of path strings the
\* value is or contains, scalar the printed form of anything else
NoValue == [kind |-> "none", paths |-> <<>>, scalar |-> "None"]
RawResults ==
  {[kind |-> "path", paths |-> <<u_bare>>, scalar |-> ""],
   [kind |-> "path", paths |-> <<u_s3ay>>, scalar |-> ""],
   [kind |-> "paths", paths |-> <<u_bare, <<"y">>>>, scalar |-> ""],
   [kind |-> "mapping", paths |-> <<u_bare>>, scalar |-> "size=3"],
   [kind |-> "size", paths |-> <<>>, scalar |-> "3"],
   [kind |-> "bool", paths |-> <<>>, scalar |-> "False"],
   [kind |-> "bytes", paths |-> <<>>, scalar |-> "b'ab'"],
   [kind |-> "checksum", paths |-> <<>>, scalar |-> "c0ffee"]}
RaceRawResults == {[kind |-> "bool", paths |-> <<>>, scalar |-> "False"]}

PathShaped(v) == v.kind \in {"path", "paths", "mapping"}

\* ------------------------------------------------- FileSystemContainer
NoCredentials == "NoCredentials"
DefaultScheme == FILE
SupportedSchemes == {S3, FILE}

\* FileSystemContainer(credentials=credentials)
FileSystemContainer(credentials) ==
  [credentials |-> IF credentials.given THEN credentials.table ELSE NoTable,
   instances |-> [k \in {} |-> 0]]

\* Credential Registry lookup(scheme, authority)
Lookup(table, scheme, netloc) ==
  IF CredKey(scheme, netloc) \in DOMAIN table THEN table[CredKey(scheme, netloc)]
  ELSE IF CredKey(scheme, <<>>) \in DOMAIN table THEN table[CredKey(scheme, <<>>)]
  ELSE NoCredentials

Malformed(uri) == uri = <<>>

SchemeOf(uri) ==
  IF urlparse(uri).scheme = <<>> THEN DefaultScheme ELSE urlparse(uri).scheme

AuthorityOf(uri) == urlparse(uri).netloc

\* strip(uri): the local, scheme-stripped path
Strip(uri) == urlparse(uri).path

\* URI Parser parse(uri): the triple {scheme, authority, path}
Parse(uri) ==
  [scheme |-> SchemeOf(uri), authority |-> AuthorityOf(uri), path |-> Strip(uri)]

\* the fully-qualified URI of a triple: "scheme://authority" before the path
Serialize(t) ==
  t.scheme \o SchemeSep \o t.authority
    \o (IF t.path # <<>> /\ t.path[1] # "/" THEN <<"/">> ELSE <<>>) \o t.path

\* the cache key (scheme, authority, credential identity)
CacheKey(fs, uri) ==
  <<SchemeOf(uri), AuthorityOf(uri),
    Lookup(fs.credentials, SchemeOf(uri), AuthorityOf(uri))>>

\* atomic insert-if-absent: the entry already present wins
InsertIfAbsent(fs, key, inst) ==
  IF key \in DOMAIN fs.instances
    THEN fs
    ELSE [fs EXCEPT !.instances =
            [k \in DOMAIN fs.instances \cup {key} |->
               IF k = key THEN inst ELSE fs.instances[k]]]

\* Backend Factory create(scheme, parameter-bundle): the instance it builds
Create(scheme, netloc, params) ==
  [scheme |-> scheme, netloc |-> netloc, params |-> params]

\* ------------------------------------------------------------ URIFilesystem
\* mutant: the constructor drops its credentials argument
InitWithoutCredentials(credentials) ==
  FileSystemContainer([given |-> FALSE, table |-> NoTable])

\* __init__: self._filesystems = FileSystemContainer(credentials=credentials)
URIFilesystemInit(credentials) == FileSystemContainer(credentials)

\* _methods_to_expose
methods_to_expose ==
  <<"mkdir", "mkdirs", "rmdir", "ls", "walk", "find", "du", "glob", "exists", "info",
    "checksum", "size", "sizes", "isdir", "isfile", "pipe_file", "pipe", "cat", "head",
    "tail", "copy", "rm", "open", "touch">>

Exposed == {methods_to_expose[i] : i \in 1..Len(methods_to_expose)}

\* mutant: every attribute is bound to the loop variable's last value
SetupInterfaceLateBound(methods) ==
  [m \in {methods[i] : i \in 1..Len(methods)} |-> methods[Len(methods)]]

\* _setup_interface: attribute name -> the method name its partial is bound to
SetupInterface(methods) == [m \in {methods[i] : i \in 1..Len(methods)} |-> m]

\* the attributes the facade has after construction
Interface == SetupInterface(methods_to_expose)

\* mutant: every access resolves on a container with an empty cache
FreshFilesystems(fs) == [fs EXCEPT !.instances = [k \in {} |-> 0]]

\* _method_call: the container a call resolves on is self._filesystems
SelfFilesystems(fs) == fs

\* mutant: the further arguments are stripped of scheme and authority too
MethodCallArgsStripped(path, rest) ==
  [args |-> [i \in 1..Len(rest.args) |-> Strip(rest.args[i])],
   kwargs |-> rest.kwargs]

\* _method_call: the arguments the backend operation is called with
MethodCallArgs(path, rest) == rest

\* mutant: every backend result is rewritten as a list of paths
MethodCallReturnAsPaths(uri, raw) ==
  [kind |-> "returned", error |-> "",
   value |-> [kind |-> "paths", paths |-> raw.paths, scalar |-> ""]]

\* _method_call: the value handed back to the caller for a backend result
MethodCallReturn(uri, raw) == [kind |-> "returned", error |-> "", value |-> raw]

\* mutant: the exception is caught and None is returned
MethodCallSwallow(error) == [kind |-> "returned", error |-> "", value |-> NoValue]

\* mutant: the exception is caught and replaced by one of the facade's own
MethodCallTranslate(error) ==
  [kind |-> "raised", error |-> "URIFilesystemError", value |-> NoValue]

\* _method_call: an exception raised below it leaves through it
MethodCallRaise(error) == [kind |-> "raised", error |-> error, value |-> NoValue]

\* a backend operation takes the path as its first parameter
BackendAccepts(passed) ==
  \/ Len(passed.args) >= 1
  \/ \E kw \in passed.kwargs : kw[1] = "path"

\* a path a backend returns is one of its own: bare, or qualified with the
\* scheme and authority the backend was built for
BackendMayReturn(backend, raw) ==
  \A i \in 1..Len(raw.paths) :
    \/ urlparse(raw.paths[i]).scheme = <<>>
    \/ /\ urlparse(raw.paths[i]).scheme = backend.scheme
       /\ urlparse(raw.paths[i]).netloc = backend.netloc

\* ------------------------------------------------------------------- state
VARIABLES
  config,       \* the credentials argument the facade was constructed with
  filesystems,  \* self._filesystems: [credentials, instances]
  otherConfig,  \* the credentials argument of a second facade
  otherFilesystems,  \* self._filesystems of the second facade
  built,        \* the instances the factory has built; an instance is its index
  pc,           \* per caller: "idle", "get", "construct", "invoke", "done"
  call,         \* per caller: the facade call in progress
  held,         \* per caller: the instance get() returned, 0 when none
  invoked,      \* per caller: the backend invocation made and its response
  outcome,      \* per caller: what the facade call gave its caller
  failure,      \* per caller: the stage that failed in the call and its error
  stages,       \* per caller: the stages the call went through
  resolved,     \* every <<scheme, authority, instance, facade>> a resolution returned
  lastFailed    \* the key of the latest failed construction, <<>> when none

vars ==
  <<config, filesystems, otherConfig, otherFilesystems, built, pc, call, held,
    invoked, outcome, failure, stages, resolved, lastFailed>>

MainFacade == "A"
OtherFacade == "B"
Facades == {MainFacade, OtherFacade}

NoCall ==
  [facade |-> MainFacade, method |-> "", uri |-> <<>>, rest |-> NoRest, fedFrom |-> 0]
NoInvocation == [inst |-> 0, method |-> "", passed |-> NoRest, value |-> NoValue]
NoFailure == [stage |-> "", error |-> ""]
Failed(stage, error) == [stage |-> stage, error |-> error]
Pending == [kind |-> "pending", error |-> "", value |-> NoValue]

\* mutant: _filesystems is one object shared by every facade
SharedSelf(facade) == MainFacade

\* partial(self._method_call, ...): the facade a method is bound to
SelfOf(facade) == facade

\* self._filesystems of the facade the call of c is made on
FilesystemsOf(c) ==
  IF SelfOf(call[c].facade) = MainFacade THEN filesystems ELSE otherFilesystems

\* no call has been made yet
InitCalls ==
  /\ built = <<>>
  /\ pc = [c \in Callers |-> "idle"]
  /\ call = [c \in Callers |-> NoCall]
  /\ held = [c \in Callers |-> 0]
  /\ invoked = [c \in Callers |-> NoInvocation]
  /\ outcome = [c \in Callers |-> Pending]
  /\ failure = [c \in Callers |-> NoFailure]
  /\ stages = [c \in Callers |-> <<>>]
  /\ resolved = {}
  /\ lastFailed = <<>>

\* the second facade is a copy of the first and stays unused
Init ==
  /\ config \in Configs
  /\ filesystems = URIFilesystemInit(config)
  /\ otherConfig = config
  /\ otherFilesystems = URIFilesystemInit(otherConfig)
  /\ InitCalls

\* the caller enters <facade>.<method>(uri, *args, **kwargs)
CallOn(c, facade, method, uri, rest) ==
  /\ pc[c] = "idle"
  /\ method \in DOMAIN Interface
  /\ pc' = [pc EXCEPT ![c] = "get"]
  /\ call' = [call EXCEPT ![c] =
                [facade |-> facade, method |-> method, uri |-> uri, rest |-> rest,
                 fedFrom |-> 0]]
  /\ UNCHANGED <<config, filesystems, otherConfig, otherFilesystems, built, held,
                 invoked, outcome, stages, resolved, failure, lastFailed>>

\* the caller enters fs.<method>(uri, *args, **kwargs) on the first facade
Call(c, method, uri, rest) == CallOn(c, MainFacade, method, uri, rest)

\* the caller passes a path the last call returned, unmodified, to another operation
FeedBack(c, method, rest) ==
  /\ pc[c] = "done"
  /\ outcome[c].kind = "returned"
  /\ PathShaped(outcome[c].value)
  /\ \E i \in 1..Len(outcome[c].value.paths) :
       call' = [call EXCEPT ![c] =
                  [facade |-> call[c].facade, method |-> method,
                   uri |-> outcome[c].value.paths[i],
                   rest |-> rest, fedFrom |-> held[c]]]
  /\ pc' = [pc EXCEPT ![c] = "get"]
  /\ held' = [held EXCEPT ![c] = 0]
  /\ invoked' = [invoked EXCEPT ![c] = NoInvocation]
  /\ outcome' = [outcome EXCEPT ![c] = Pending]
  /\ stages' = [stages EXCEPT ![c] = <<>>]
  /\ failure' = [failure EXCEPT ![c] = NoFailure]
  /\ UNCHANGED <<config, filesystems, otherConfig, otherFilesystems,
                 built, resolved, lastFailed>>

\* get(uri): the URI cannot be parsed
GetMalformed(c) ==
  /\ pc[c] = "get"
  /\ Malformed(call[c].uri)
  /\ pc' = [pc EXCEPT ![c] = "done"]
  /\ outcome' = [outcome EXCEPT ![c] = MethodCallRaise("MalformedURI")]
  /\ stages' = [stages EXCEPT ![c] = Append(@, "parse")]
  /\ failure' = [failure EXCEPT ![c] = Failed("parse", "MalformedURI")]
  /\ UNCHANGED <<config, filesystems, otherConfig, otherFilesystems, built,
                 call, held, invoked, resolved, lastFailed>>

\* get(uri): the key has an entry, which is returned
GetHit(c) ==
  LET fs == SelfFilesystems(FilesystemsOf(c))
      key == CacheKey(fs, call[c].uri)
  IN  /\ pc[c] = "get"
      /\ ~Malformed(call[c].uri)
      /\ key \in DOMAIN fs.instances
      /\ pc' = [pc EXCEPT ![c] = "invoke"]
      /\ held' = [held EXCEPT ![c] = fs.instances[key]]
      /\ resolved' =
           resolved \cup {<<key[1], key[2], fs.instances[key], call[c].facade>>}
      /\ stages' = [stages EXCEPT ![c] = @ \o <<"parse", "lookup", "hit">>]
      /\ UNCHANGED <<config, filesystems, otherConfig, otherFilesystems, built,
                     call, invoked, outcome, failure, lastFailed>>

\* get(uri): the key has no entry, the factory is called next
GetMiss(c) ==
  LET fs == SelfFilesystems(FilesystemsOf(c))
      key == CacheKey(fs, call[c].uri)
  IN  /\ pc[c] = "get"
      /\ ~Malformed(call[c].uri)
      /\ key \notin DOMAIN fs.instances
      /\ pc' = [pc EXCEPT ![c] = "construct"]
      /\ stages' = [stages EXCEPT ![c] = @ \o <<"parse", "lookup", "miss">>]
      /\ UNCHANGED <<config, filesystems, otherConfig, otherFilesystems, built, call,
                     held, invoked, outcome, resolved, failure, lastFailed>>

\* the factory has no backend for the scheme
ConstructUnsupported(c) ==
  /\ pc[c] = "construct"
  /\ SchemeOf(call[c].uri) \notin SupportedSchemes
  /\ pc' = [pc EXCEPT ![c] = "done"]
  /\ outcome' = [outcome EXCEPT ![c] = MethodCallRaise("UnsupportedScheme")]
  /\ stages' = [stages EXCEPT ![c] = Append(@, "factory")]
  /\ failure' = [failure EXCEPT ![c] = Failed("factory", "UnsupportedScheme")]
  /\ UNCHANGED <<config, filesystems, otherConfig, otherFilesystems, built,
                 call, held, invoked, resolved, lastFailed>>

\* the construction of the backend fails
ConstructFail(c) ==
  /\ pc[c] = "construct"
  /\ SchemeOf(call[c].uri) \in SupportedSchemes
  /\ pc' = [pc EXCEPT ![c] = "done"]
  /\ outcome' = [outcome EXCEPT ![c] = MethodCallRaise("BackendConstructionError")]
  /\ stages' = [stages EXCEPT ![c] = Append(@, "factory")]
  /\ failure' = [failure EXCEPT ![c] = Failed("factory", "BackendConstructionError")]
  /\ lastFailed' = CacheKey(SelfFilesystems(FilesystemsOf(c)), call[c].uri)
  /\ UNCHANGED <<config, filesystems, otherConfig, otherFilesystems, built,
                 call, held, invoked, resolved>>

\* the backend is built and inserted unless the key got an entry meanwhile
ConstructOk(c) ==
  LET fs == SelfFilesystems(FilesystemsOf(c))
      key == CacheKey(fs, call[c].uri)
      new == Len(built) + 1
      after == InsertIfAbsent(fs, key, new)
  IN  /\ pc[c] = "construct"
      /\ SchemeOf(call[c].uri) \in SupportedSchemes
      /\ Len(built) < MaxInst
      /\ built' = Append(built, Create(key[1], key[2], key[3]))
      /\ filesystems' =
           IF SelfOf(call[c].facade) = MainFacade THEN after ELSE filesystems
      /\ otherFilesystems' =
           IF SelfOf(call[c].facade) = MainFacade THEN otherFilesystems ELSE after
      /\ held' = [held EXCEPT ![c] = after.instances[key]]
      /\ resolved' =
           resolved \cup {<<key[1], key[2], after.instances[key], call[c].facade>>}
      /\ pc' = [pc EXCEPT ![c] = "invoke"]
      /\ stages' = [stages EXCEPT ![c] = Append(@, "factory")]
      /\ UNCHANGED <<config, otherConfig, call, invoked, outcome, failure, lastFailed>>

\* mutant: the operation runs on the backend built last, not the resolved one
InvocationOnLatest(c) ==
  [inst |-> Len(built), method |-> Interface[call[c].method],
   passed |-> MethodCallArgs(Strip(call[c].uri), call[c].rest),
   value |-> NoValue]

\* getattr(backend, method)(*args, **kwargs)
Invocation(c) ==
  [inst |-> held[c], method |-> Interface[call[c].method],
   passed |-> MethodCallArgs(Strip(call[c].uri), call[c].rest),
   value |-> NoValue]

\* the call does not bind the operation's path parameter
InvokeTypeError(c) ==
  /\ pc[c] = "invoke"
  /\ ~BackendAccepts(Invocation(c).passed)
  /\ invoked' = [invoked EXCEPT ![c] = Invocation(c)]
  /\ outcome' = [outcome EXCEPT ![c] = MethodCallRaise("TypeError")]
  /\ pc' = [pc EXCEPT ![c] = "done"]
  /\ stages' = [stages EXCEPT ![c] = Append(@, "invoke")]
  /\ failure' = [failure EXCEPT ![c] = Failed("invoke", "TypeError")]
  /\ UNCHANGED <<config, filesystems, otherConfig, otherFilesystems, built,
                 call, held, resolved, lastFailed>>

\* the backend operation returns raw
InvokeReturn(c, raw) ==
  /\ pc[c] = "invoke"
  /\ BackendAccepts(Invocation(c).passed)
  /\ BackendMayReturn(built[held[c]], raw)
  /\ invoked' = [invoked EXCEPT ![c] = [Invocation(c) EXCEPT !.value = raw]]
  /\ outcome' = [outcome EXCEPT ![c] = MethodCallReturn(call[c].uri, raw)]
  /\ pc' = [pc EXCEPT ![c] = "done"]
  /\ stages' = [stages EXCEPT ![c] = Append(@, "invoke")]
  /\ UNCHANGED <<config, filesystems, otherConfig, otherFilesystems, built,
                 call, held, resolved, failure, lastFailed>>

\* the backend operation fails
InvokeRaise(c) ==
  /\ pc[c] = "invoke"
  /\ BackendAccepts(Invocation(c).passed)
  /\ invoked' = [invoked EXCEPT ![c] = Invocation(c)]
  /\ outcome' = [outcome EXCEPT ![c] = MethodCallRaise("BackendOperationError")]
  /\ pc' = [pc EXCEPT ![c] = "done"]
  /\ stages' = [stages EXCEPT ![c] = Append(@, "invoke")]
  /\ failure' = [failure EXCEPT ![c] = Failed("invoke", "BackendOperationError")]
  /\ UNCHANGED <<config, filesystems, otherConfig, otherFilesystems, built,
                 call, held, resolved, lastFailed>>

\* the caller is done with the call
Return(c) ==
  /\ pc[c] = "done"
  /\ pc' = [pc EXCEPT ![c] = "idle"]
  /\ call' = [call EXCEPT ![c] = NoCall]
  /\ held' = [held EXCEPT ![c] = 0]
  /\ invoked' = [invoked EXCEPT ![c] = NoInvocation]
  /\ outcome' = [outcome EXCEPT ![c] = Pending]
  /\ stages' = [stages EXCEPT ![c] = <<>>]
  /\ failure' = [failure EXCEPT ![c] = NoFailure]
  /\ UNCHANGED <<config, filesystems, otherConfig, otherFilesystems,
                 built, resolved, lastFailed>>

\* one caller, one call at a time
Next ==
  \E c \in SeqCallers :
    \/ \E m \in CalledMethods, u \in URIs, r \in Rests : Call(c, m, u, r)
    \/ \E m \in CalledMethods, r \in Rests : FeedBack(c, m, r)
    \/ GetMalformed(c)
    \/ GetHit(c)
    \/ GetMiss(c)
    \/ ConstructUnsupported(c)
    \/ ConstructFail(c)
    \/ ConstructOk(c)
    \/ InvokeTypeError(c)
    \/ \E raw \in RawResults : InvokeReturn(c, raw)
    \/ InvokeRaise(c)
    \/ Return(c)

Spec == Init /\ [][Next]_vars

\* several callers share the facade and interleave at every step; every
\* construction succeeds
NextRace ==
  \E c \in Callers :
    \/ \E u \in RaceURIs : Call(c, "exists", u, PathKw)
    \/ GetHit(c)
    \/ GetMiss(c)
    \/ ConstructOk(c)
    \/ \E raw \in RaceRawResults : InvokeReturn(c, raw)
    \/ Return(c)

InitRace == Init /\ config \in RaceConfigs

SpecRace == InitRace /\ [][NextRace]_vars

\* two facades constructed independently, with the same or different
\* credentials; one caller uses both
InitTwo ==
  /\ config \in TwoConfigs
  /\ filesystems = URIFilesystemInit(config)
  /\ otherConfig \in TwoConfigs
  /\ otherFilesystems = URIFilesystemInit(otherConfig)
  /\ InitCalls

NextTwo ==
  \E c \in SeqCallers :
    \/ \E f \in Facades, u \in RaceURIs : CallOn(c, f, "exists", u, PathKw)
    \/ GetHit(c)
    \/ GetMiss(c)
    \/ ConstructOk(c)
    \/ \E raw \in RaceRawResults : InvokeReturn(c, raw)
    \/ Return(c)

SpecTwo == InitTwo /\ [][NextTwo]_vars

\* one caller goes through every exposed operation
NextOps ==
  \E c \in SeqCallers :
    \/ \E m \in Exposed, u \in RaceURIs : Call(c, m, u, PathKw)
    \/ GetHit(c)
    \/ GetMiss(c)
    \/ ConstructOk(c)
    \/ \E raw \in RaceRawResults : InvokeReturn(c, raw)
    \/ Return(c)

SpecOps == InitRace /\ [][NextOps]_vars

\* several callers share the facade and interleave at every step; each makes
\* one call
NextOneCall ==
  \E c \in Callers :
    \/ \E u \in ResolveURIs : Call(c, "exists", u, PathKw)
    \/ GetHit(c)
    \/ GetMiss(c)
    \/ ConstructOk(c)
    \/ \E raw \in RaceRawResults : InvokeReturn(c, raw)

SpecOneCall == InitRace /\ [][NextOneCall]_vars

\* one caller resolves arbitrary strings; no backend is built
NextParse ==
  \E c \in SeqCallers :
    \/ pc[c] = "idle" /\ \E u \in ParseInputs : Call(c, "exists", u, PathKw)
    \/ GetMalformed(c)
    \/ GetMiss(c)
    \/ ConstructUnsupported(c)
    \/ Return(c)

SpecParse == InitRace /\ [][NextParse]_vars

\* ------------------------------------------------------------------ claims
Finished(c) == pc[c] = "done"

\* "scheme://authority" of the URI a call was made with
Qualifier(uri) == CredKey(urlparse(uri).scheme, urlparse(uri).netloc)

\* C1: every path in the value a facade call returns for a path-shaped backend
\* result is a fully-qualified URI carrying the scheme and authority of the
\* URI the call was made with.
C1_ReturnedPathsQualified ==
  \A c \in Callers :
    (/\ Finished(c) /\ outcome[c].kind = "returned" /\ PathShaped(invoked[c].value)
     /\ urlparse(call[c].uri).scheme # <<>>) =>
      \A i \in 1..Len(outcome[c].value.paths) :
        StartsWith(outcome[c].value.paths[i], Qualifier(call[c].uri) \o <<"/">>)

\* C2: the backend operation is invoked with the local, scheme-stripped path of
\* the URI followed by exactly the remaining positional and keyword arguments.
C2_BackendGetsPathAndRest ==
  \A c \in Callers :
    (Finished(c) /\ invoked[c].inst # 0) =>
      invoked[c].passed =
        [args |-> <<Strip(call[c].uri)>> \o call[c].rest.args,
         kwargs |-> call[c].rest.kwargs]

\* C3: any two successful resolutions, on one facade, of URIs with the same
\* scheme and the same authority returned the same backend instance.
C3_ResolutionDeterminism ==
  \A r1 \in resolved, r2 \in resolved :
    (r1[1] = r2[1] /\ r1[2] = r2[2] /\ r1[4] = r2[4]) => r1[3] = r2[3]

\* a resolution of s3://a/y returns the instance built earlier for s3://a,
\* with other backends built in between
C3_Witness ==
  /\ pc[1] = "invoke"
  /\ call[1].uri = u_s3ay
  /\ Len(built) >= 3
  /\ built[1].scheme = S3 /\ built[1].netloc = <<"a">>
  /\ held[1] = 1
  /\ <<S3, <<"a">>, 1, MainFacade>> \in resolved

\* the table the constructor was given
GivenTable == IF config.given THEN config.table ELSE NoTable

\* C4: a backend built for scheme s and authority a got the table entry for
\* "s://a" if there is one, otherwise the entry for "s://" if there is one,
\* otherwise no credentials.
C4_CredentialSpecificity ==
  \A i \in 1..Len(built) :
    LET exact == CredKey(built[i].scheme, built[i].netloc)
        default == CredKey(built[i].scheme, <<>>)
    IN  /\ exact \in DOMAIN GivenTable => built[i].params = GivenTable[exact]
        /\ (exact \notin DOMAIN GivenTable /\ default \in DOMAIN GivenTable) =>
             built[i].params = GivenTable[default]
        /\ (exact \notin DOMAIN GivenTable /\ default \notin DOMAIN GivenTable) =>
             built[i].params = NoCredentials

\* with entries for "s3://" and "s3://a": the backend of s3://a got the
\* specific entry and the backend of s3://b the scheme default
C4_Witness ==
  /\ config.given /\ config.table = TableBoth
  /\ \E i \in 1..Len(built) :
       built[i].netloc = <<"a">> /\ built[i].params = "P_s3_a"
  /\ \E i \in 1..Len(built) :
       built[i].netloc = <<"b">> /\ built[i].params = "P_s3"

\* C5: callers that hold a backend for the same cache key hold the same
\* instance, and it is the one the cache retains for the key.
C5_SingleInstanceUnderRace ==
  \A c1 \in Callers :
    held[c1] # 0 =>
      /\ CacheKey(filesystems, call[c1].uri) \in DOMAIN filesystems.instances
      /\ filesystems.instances[CacheKey(filesystems, call[c1].uri)] = held[c1]
      /\ \A c2 \in Callers :
           (held[c2] # 0 /\ CacheKey(filesystems, call[c2].uri) =
                              CacheKey(filesystems, call[c1].uri)) =>
             held[c2] = held[c1]

Missed(c) == \E i \in 1..Len(stages[c]) : stages[c][i] = "miss"

\* two callers both missed on the same key, both built a backend and both
\* carry out their operation on the one retained
C5_Witness ==
  /\ pc[1] = "invoke" /\ pc[2] = "invoke"
  /\ Missed(1) /\ Missed(2)
  /\ call[1].uri = call[2].uri
  /\ Len(built) = 2
  /\ held[1] = held[2]
  /\ held[1] # 0

KeyOf(c) == CacheKey(filesystems, call[c].uri)

FactoryCalls(c) == Cardinality({i \in 1..Len(stages[c]) : stages[c][i] = "factory"})

\* C6: a failed construction reaches the caller as an error after one factory
\* call and leaves no cache entry for the key; the next resolution of the key
\* calls the factory again, and a construction that then succeeds is cached
\* and returned.
C6_FailedConstructionNotCached ==
  [][\A c \in Callers :
       /\ (pc[c] = "construct" /\ pc'[c] = "done") =>
            /\ outcome'[c].kind = "raised"
            /\ outcome'[c].error = failure'[c].error
            /\ filesystems' = filesystems
            /\ KeyOf(c) \notin DOMAIN filesystems'.instances
            /\ FactoryCalls(c)' = 1
       /\ (/\ pc[c] = "get" /\ pc'[c] # "get"
           /\ ~Malformed(call[c].uri)
           /\ lastFailed = KeyOf(c)
           /\ KeyOf(c) \notin DOMAIN filesystems.instances) =>
            pc'[c] = "construct"
       /\ (pc[c] = "construct" /\ pc'[c] = "invoke") =>
            /\ KeyOf(c) \in DOMAIN filesystems'.instances
            /\ held'[c] = filesystems'.instances[KeyOf(c)]
            /\ outcome'[c].kind = "pending"
    ]_vars

\* the construction for a key failed in an earlier call, and the call in
\* progress built the backend of that key
C6_Witness ==
  /\ pc[1] = "invoke"
  /\ lastFailed = KeyOf(1)
  /\ Missed(1)
  /\ held[1] # 0
  /\ filesystems.instances[KeyOf(1)] = held[1]

\* C7: a resolution whose scheme has no backend factory ends with
\* UnsupportedScheme and changes neither the cache nor the instances built;
\* no entry is ever cached for such a scheme.
C7_UnsupportedSchemeLeavesCache ==
  /\ [][\A c \in Callers :
          (/\ pc[c] = "construct" /\ pc'[c] # "construct"
           /\ SchemeOf(call[c].uri) \notin SupportedSchemes) =>
            /\ pc'[c] = "done"
            /\ outcome'[c].kind = "raised"
            /\ outcome'[c].error = "UnsupportedScheme"
            /\ filesystems' = filesystems
            /\ built' = built
            /\ resolved' = resolved
       ]_vars
  /\ [](\A k \in DOMAIN filesystems.instances : k[1] \in SupportedSchemes)

\* ftp://h/x failed with UnsupportedScheme while the backends cached for
\* other schemes are in place
C7_Witness ==
  /\ pc[1] = "done"
  /\ call[1].uri = u_ftp
  /\ outcome[1].kind = "raised" /\ outcome[1].error = "UnsupportedScheme"
  /\ \E k \in DOMAIN filesystems.instances : k[1] = S3
  /\ \E k \in DOMAIN filesystems.instances : k[1] = FILE

\* C8: a call whose uri is a path an earlier call returned is accepted and
\* resolves to the backend instance of the earlier call.
C8_FedBackSameBackend ==
  \A c \in Callers :
    (call[c].fedFrom # 0 /\ pc[c] \in {"construct", "invoke", "done"}) =>
      held[c] = call[c].fedFrom

\* C9: a backend result that is not path-shaped is returned as it is.
C9_NonPathPassThrough ==
  \A c \in Callers :
    (/\ Finished(c) /\ invoked[c].inst # 0 /\ failure[c] = NoFailure
     /\ ~PathShaped(invoked[c].value)) =>
      /\ outcome[c].kind = "returned"
      /\ outcome[c].value = invoked[c].value

\* the backend returned the boolean False and so did the facade
C9_Witness ==
  /\ Finished(1)
  /\ invoked[1].inst # 0
  /\ invoked[1].value.kind = "bool"
  /\ outcome[1].kind = "returned"
  /\ outcome[1].value.scalar = "False"

\* C10: a finished call returned the backend's result when no stage failed,
\* and otherwise ended with the error of the stage that failed, unchanged;
\* no backend operation ran after a failed resolution.
C10_NeverSwallows ==
  \A c \in Callers :
    Finished(c) =>
      /\ failure[c] = NoFailure =>
           /\ outcome[c].kind = "returned"
           /\ invoked[c].inst # 0
      /\ failure[c] # NoFailure =>
           /\ outcome[c].kind = "raised"
           /\ outcome[c].error = failure[c].error
      /\ failure[c].stage \in {"parse", "factory"} => invoked[c].inst = 0

\* the backend operation failed and the call ended with that error
C10_Witness ==
  /\ Finished(1)
  /\ invoked[1].inst # 0
  /\ failure[1] = Failed("invoke", "BackendOperationError")
  /\ outcome[1].kind = "raised"
  /\ outcome[1].error = "BackendOperationError"

\* no entry of the table the constructor was given matches the URI
NoEntryMatches(uri) ==
  /\ CredKey(SchemeOf(uri), AuthorityOf(uri)) \notin DOMAIN GivenTable
  /\ CredKey(SchemeOf(uri), <<>>) \notin DOMAIN GivenTable

\* C13: a call on a URI that no credential entry matches builds or reuses a
\* backend with no credentials and ends with what the backend operation gave:
\* its value, or the error of the construction or of the operation itself;
\* no other error is raised.
C13_NoCredentialsIsNormal ==
  \A c \in Callers :
    (/\ Finished(c)
     /\ urlparse(call[c].uri).scheme \in SupportedSchemes
     /\ NoEntryMatches(call[c].uri)) =>
      /\ failure[c].error \in {"", "BackendConstructionError", "BackendOperationError"}
      /\ held[c] # 0 => built[held[c]].params = NoCredentials
      /\ failure[c] = NoFailure =>
           (outcome[c].kind = "returned" /\ outcome[c].value = invoked[c].value)

Parsed(c) == pc[c] \in {"construct", "invoke", "done"} /\ ~Malformed(call[c].uri)

RoundTrips(uri) ==
  /\ ~Malformed(Serialize(Parse(uri)))
  /\ Parse(Serialize(Parse(uri))) = Parse(uri)

\* the URI is an explicit scheme followed by "//"
HasSchemeDelimiter(uri) ==
  LET i == Find(uri, ":", 1)
  IN  /\ urlparse(uri).scheme # <<>>
      /\ Len(uri) >= i + 2
      /\ uri[i + 1] = "/" /\ uri[i + 2] = "/"

C15_CacheLifecycle ==
  /\ (built = <<>> /\ DOMAIN filesystems.instances = {})
  /\ [][\A k \in DOMAIN filesystems.instances :
          /\ k \in DOMAIN filesystems'.instances
          /\ filesystems'.instances[k] = filesystems.instances[k]]_vars
  /\ [][\A c \in Callers :
          (/\ pc[c] = "get" /\ pc'[c] # "get"
           /\ ~Malformed(call[c].uri)
           /\ KeyOf(c) \in DOMAIN filesystems.instances)
          => /\ pc'[c] = "invoke"
             /\ held'[c] = filesystems.instances[KeyOf(c)]
             /\ built' = built
             /\ filesystems' = filesystems]_vars
  /\ [][\A k \in DOMAIN filesystems'.instances \ DOMAIN filesystems.instances :
          /\ Len(built') = Len(built) + 1
          /\ filesystems'.instances[k] = Len(built')
          /\ \E c \in Callers :
               /\ pc[c] = "construct" /\ KeyOf(c) = k
               /\ stages[c] = <<"parse", "lookup", "miss">>]_vars

\* after a second backend was built, a resolution of the first key hit the cache
C15_Witness ==
  /\ pc[1] = "invoke"
  /\ stages[1] = <<"parse", "lookup", "hit">>
  /\ Len(built) >= 2
  /\ held[1] = 1
  /\ filesystems.instances[KeyOf(1)] = 1

\* C16: in every state the credential table of the facade is the table its
\* constructor was given, and a step changes nothing of the facade except
\* the instances of its cache.
C16_CredentialTableFixed ==
  /\ [](filesystems.credentials = GivenTable)
  /\ [][/\ config' = config
        /\ [filesystems' EXCEPT !.instances = filesystems.instances] = filesystems
       ]_vars

\* a facade given a table has had a failing construction and a successful one
C16_Witness ==
  /\ config.given /\ config.table = TableBoth
  /\ lastFailed # <<>>
  /\ Len(built) >= 1
  /\ pc[1] = "done" /\ outcome[1].kind = "returned"
  /\ filesystems.credentials = TableBoth

\* how many times a stage occurs among the stages of a call
Count(seq, stage) == Cardinality({i \in DOMAIN seq : seq[i] = stage})

\* C17: a call parses and looks up at most once, asks the factory at most once
\* and invokes at most one backend operation, after the resolution and on the
\* instance it resolved; a call that failed in parsing or construction has
\* invoked nothing.
C17_OneResolutionOneInvocation ==
  \A c \in Callers :
    /\ \A stage \in {"parse", "lookup", "factory", "invoke"} :
         Count(stages[c], stage) <= 1
    /\ Count(stages[c], "hit") + Count(stages[c], "miss") <= 1
    /\ Count(stages[c], "invoke") = 1 =>
         /\ stages[c][Len(stages[c])] = "invoke"
         /\ stages[c][1] = "parse"
         /\ held[c] # 0
         /\ invoked[c].inst = held[c]
    /\ Finished(c) => Count(stages[c], "parse") = 1
    /\ (Finished(c) /\ failure[c].stage \in {"parse", "lookup", "factory"}) =>
         /\ Count(stages[c], "invoke") = 0
         /\ invoked[c] = NoInvocation
         /\ held[c] = 0

\* a second backend exists and a call that hit the first one has invoked it
C17_Witness ==
  /\ Finished(1)
  /\ Len(built) >= 2
  /\ stages[1] = <<"parse", "lookup", "hit", "invoke">>
  /\ held[1] = 1
  /\ invoked[1].inst = 1

\* the caller is between entering get(uri) and the answer of the factory
Resolving(c) == pc[c] \in {"get", "construct"}

\* another caller is inside the construction of the backend for another key
OtherKeyInConstruction(c, key) ==
  \E c1 \in Callers \ {c} : pc[c1] = "construct" /\ KeyOf(c1) # key

\* C18: while a caller is inside the construction for one key, a caller with
\* a different key can take its next step of resolution; a step of a
\* resolution leaves the entry of every other key and the position, instance
\* and outcome of every caller of another key unchanged; and the instance a
\* caller resolved is the one built for its own key.
C18_DifferentKeysIndependent ==
  /\ [](\A c2 \in Callers :
          /\ pc[c2] = "idle" =>
               \A u \in ResolveURIs :
                 OtherKeyInConstruction(c2, CacheKey(filesystems, u)) =>
                   ENABLED Call(c2, "exists", u, PathKw)
          /\ (pc[c2] = "get" /\ OtherKeyInConstruction(c2, KeyOf(c2))) =>
               ENABLED (GetHit(c2) \/ GetMiss(c2))
          /\ (pc[c2] = "construct" /\ Len(built) < MaxInst
                /\ OtherKeyInConstruction(c2, KeyOf(c2))) =>
               ENABLED ConstructOk(c2))
  /\ [](\A c \in Callers :
          held[c] # 0 =>
            built[held[c]] = Create(KeyOf(c)[1], KeyOf(c)[2], KeyOf(c)[3]))
  /\ [][\A c1 \in Callers, c2 \in Callers :
          (/\ Resolving(c1) /\ pc'[c1] # pc[c1]
           /\ c2 # c1 /\ pc[c2] \in {"get", "construct", "invoke", "done"}
           /\ KeyOf(c2) # KeyOf(c1))
          => /\ (KeyOf(c2) \in DOMAIN filesystems'.instances)
                  <=> (KeyOf(c2) \in DOMAIN filesystems.instances)
             /\ KeyOf(c2) \in DOMAIN filesystems.instances =>
                  filesystems'.instances[KeyOf(c2)] = filesystems.instances[KeyOf(c2)]
             /\ pc'[c2] = pc[c2] /\ held'[c2] = held[c2]
             /\ stages'[c2] = stages[c2] /\ outcome'[c2] = outcome[c2]]_vars

\* caller 1 is inside the construction for its key, nothing is built for that
\* key yet, and caller 2 has resolved another key and got its result
C18_Witness ==
  /\ pc[1] = "construct"
  /\ KeyOf(1) \notin DOMAIN filesystems.instances
  /\ Finished(2)
  /\ KeyOf(2) # KeyOf(1)
  /\ Missed(2)
  /\ held[2] = Len(built) /\ Len(built) = 1
  /\ outcome[2].kind = "returned"

\* the last n elements of a sequence
Suffix(seq, n) == SubSeq(seq, Len(seq) - n + 1, Len(seq))

\* C19: the operation of a call runs on the instance cached for the key of
\* the call's first URI and gets the further positional and keyword arguments
\* exactly as the caller gave them; during a call, a backend is built or a
\* resolution recorded only for the key of the first URI.
C19_FirstArgumentSelects ==
  /\ [](\A c \in Callers :
          invoked[c].inst # 0 =>
            /\ KeyOf(c) \in DOMAIN filesystems.instances
            /\ invoked[c].inst = filesystems.instances[KeyOf(c)]
            /\ Len(invoked[c].passed.args) >= Len(call[c].rest.args)
            /\ Suffix(invoked[c].passed.args, Len(call[c].rest.args))
                 = call[c].rest.args
            /\ invoked[c].passed.kwargs = call[c].rest.kwargs)
  /\ [][\A r \in resolved' \ resolved :
          \E c \in Callers :
            /\ Resolving(c)
            /\ r[1] = KeyOf(c)[1] /\ r[2] = KeyOf(c)[2]]_vars
  /\ [][\A i \in (Len(built) + 1)..Len(built') :
          \E c \in Callers :
            /\ Resolving(c)
            /\ built'[i] = Create(KeyOf(c)[1], KeyOf(c)[2], KeyOf(c)[3])]_vars

\* copy("s3://b/x", "s3://a/y") has run on the backend of s3://b, which got
\* "s3://a/y" unchanged, and nothing was ever resolved or built for s3://a
C19_Witness ==
  /\ Finished(1)
  /\ call[1].method = "copy"
  /\ call[1].uri = u_s3bx
  /\ call[1].rest = DstArg
  /\ invoked[1].inst # 0
  /\ built[invoked[1].inst].netloc = <<"b">>
  /\ invoked[1].passed.args = <<u_s3ay>>
  /\ \A r \in resolved : r[2] # <<"a">>
  /\ \A i \in 1..Len(built) : built[i].netloc # <<"a">>

====
